---- MODULE Spec2Model ----
(***************************************************************************)
(* Model of the CoAP packet codec of src/src/packet.rs: the option table   *)
(* of a Packet, its token and payload, to_bytes and from_bytes.            *)
(*                                                                         *)
(* Bytes are the integers 0..255; a Vec<u8> is a sequence of bytes.  The   *)
(* code indexes buffers from 0, sequences are indexed from 1: buf[i] of    *)
(* the code is buf[i + 1] here.  The target is little-endian with a 64-bit *)
(* usize (u16::from_be swaps the two bytes); the build either checks       *)
(* integer overflow (debug profile: the addition panics) or wraps          *)
(* (release profile): from_bytes is modelled for both.                     *)
(***************************************************************************)
EXTENDS Integers, Sequences, FiniteSets, TLC

VARIABLES
    packet,           \* the Packet under construction (struct Packet)
    populated,        \* history: option numbers ever passed to add/set
    last,             \* the last call made: its name, arguments and result
    pc,               \* "build", "encoded" (after to_bytes), "decoded"
    enc,              \* result of the last to_bytes
    buf,              \* input of the last from_bytes
    dec,              \* result of the last from_bytes
    vli               \* one value through the variable-length integer scheme

vars == <<packet, populated, last, pc, enc, buf, dec, vli>>

----------------------------------------------------------------------------
(* Bounds of the model *)

MaxValues == 2     \* values held by the option table, over all keys
MaxLarge == 2      \* large values held by the option table (SpecSize)
MaxRawLen == 3     \* bytes after the 4-byte header in a hand-made buffer
MaxPrefix == 24    \* truncation points tried from the start of a buffer
MaxVliLow == 300   \* the tiers' low end is covered from 0 up to here

(* Program constants *)

MaxPacket == 1280
MaxTokenLength == 8
PayloadMarker == 255

----------------------------------------------------------------------------
(* Helpers *)

\* n bytes of 0xF0, the content of the long tokens, values and payloads
Fill(n) == [i \in 1..n |-> 240]

Slice(b, from, to) == SubSeq(b, from + 1, to)

\* &buf[from..to] panics unless from <= to <= buf.len()
slice_ok(b, from, to) == from <= to /\ to <= Len(b)

Min(S) == CHOOSE x \in S : \A y \in S : x <= y

None == [some |-> FALSE, val |-> <<>>]
Some(x) == [some |-> TRUE, val |-> x]

----------------------------------------------------------------------------
(* enum CoapOption and enum ContentFormat *)

CoapOption ==
    {"IfMatch", "UriHost", "ETag", "IfNoneMatch", "Observe", "UriPort",
     "LocationPath", "Oscore", "UriPath", "ContentFormat", "MaxAge",
     "UriQuery", "Accept", "LocationQuery", "Block2", "Block1", "ProxyUri",
     "ProxyScheme", "Size1", "Size2", "NoResponse"}

get_option_number(tp) ==
    CASE tp = "IfMatch" -> 1
      [] tp = "UriHost" -> 3
      [] tp = "ETag" -> 4
      [] tp = "IfNoneMatch" -> 5
      [] tp = "Observe" -> 6
      [] tp = "UriPort" -> 7
      [] tp = "LocationPath" -> 8
      [] tp = "Oscore" -> 9
      [] tp = "UriPath" -> 11
      [] tp = "ContentFormat" -> 12
      [] tp = "MaxAge" -> 14
      [] tp = "UriQuery" -> 15
      [] tp = "Accept" -> 17
      [] tp = "LocationQuery" -> 20
      [] tp = "Block2" -> 23
      [] tp = "Block1" -> 27
      [] tp = "ProxyUri" -> 35
      [] tp = "ProxyScheme" -> 39
      [] tp = "Size1" -> 60
      [] tp = "Size2" -> 28
      [] tp = "NoResponse" -> 258

ContentFormat ==
    {0, 40, 41, 42, 47, 50, 60, 110, 111, 112, 113, 114, 115, 310, 311}

----------------------------------------------------------------------------
(* The fixed header (header::Header, header::HeaderRaw) *)

Header_new ==
    [version |-> 1, type |-> 0, token_length |-> 0, code |-> 1,
     message_id |-> 0]

set_token_length(h, tkl) == [h EXCEPT !.token_length = tkl]

MessageClassEmpty == 0

serialize_into(h) ==
    << (h.version * 64 + h.type * 16 + (h.token_length % 16)) % 256,
       h.code,
       h.message_id \div 256,
       h.message_id % 256 >>

Header_from_raw(raw) ==
    [version |-> raw[1] \div 64,
     type |-> (raw[1] \div 16) % 4,
     token_length |-> raw[1] % 16,
     code |-> raw[2],
     message_id |-> raw[3] * 256 + raw[4]]

----------------------------------------------------------------------------
(* struct Packet and the option table (BTreeMap<usize, LinkedList<Vec<u8>>>) *)

Packet_new ==
    [header |-> Header_new, token |-> <<>>, options |-> <<>>,
     payload |-> <<>>]

\* BTreeMap::insert
insert(options, num, value) ==
    [k \in DOMAIN options \cup {num} |->
        IF k = num THEN value ELSE options[k]]

set_token(p, token) ==
    [p EXCEPT !.header = set_token_length(p.header, Len(token) % 256),
              !.token = token]

set_option(p, tp, value) ==
    LET num == get_option_number(tp)
    IN  [p EXCEPT !.options = insert(p.options, num, value)]

add_option(p, tp, value) ==
    LET num == get_option_number(tp)
    IN  IF num \in DOMAIN p.options
        THEN [p EXCEPT !.options[num] = Append(@, value)]
        ELSE [p EXCEPT !.options = insert(p.options, num, <<value>>)]

get_option(p, tp) ==
    LET num == get_option_number(tp)
    IN  IF num \in DOMAIN p.options THEN Some(p.options[num]) ELSE None

\* clear_option removing the entry instead of emptying its list
clear_option_removes(p, tp) ==
    LET num == get_option_number(tp)
    IN  [p EXCEPT !.options =
            [k \in DOMAIN p.options \ {num} |-> p.options[k]]]

clear_option(p, tp) ==
    LET num == get_option_number(tp)
    IN  IF num \in DOMAIN p.options
        THEN [p EXCEPT !.options[num] = <<>>]
        ELSE p

set_content_format(p, cf) ==
    LET content_format == cf % 65536
        msb == (content_format \div 256) % 256
        lsb == content_format % 256
    IN  add_option(p, "ContentFormat", <<msb, lsb>>)

set_payload(p, payload) == [p EXCEPT !.payload = payload]

\* The result is Some(format), None, or a panic when vector[0] or vector[1]
\* indexes past the end of the first value.
get_content_format(p) ==
    LET o == get_option(p, "ContentFormat")
    IN  IF o.some /\ o.val # <<>>
        THEN LET vector == Head(o.val)
             IN  IF Len(vector) < 2
                 THEN [kind |-> "PanicIndex", val |-> 0]
                 ELSE LET number == vector[1] * 256 + vector[2]
                      IN  IF number \in ContentFormat
                          THEN [kind |-> "Some", val |-> number]
                          ELSE [kind |-> "None", val |-> 0]
        ELSE [kind |-> "None", val |-> 0]

set_observe(p, value) ==
    add_option(clear_option(p, "Observe"), "Observe", value)

get_observe(p) ==
    LET o == get_option(p, "Observe")
    IN  IF o.some /\ o.val # <<>> THEN Some(Head(o.val)) ELSE None

----------------------------------------------------------------------------
(* to_bytes *)

Ok(x) == [status |-> "Ok", val |-> x]
Err(e) == [status |-> e, val |-> <<>>]

\* the 4-bit code of a delta or of a value length
option_nibble(v) == IF v <= 12 THEN v ELSE IF v < 269 THEN 13 ELSE 14

\* the extension bytes of a delta or of a value length
option_extension(v) ==
    IF v > 12 /\ v < 269
    THEN << (v - 13) % 256 >>
    ELSE IF v >= 269
         THEN LET fix == (v - 269) % 65536
              IN  << (fix \div 256) % 256, fix % 256 >>
         ELSE <<>>

\* one option record: the header byte, the extension bytes, the value
option_record(delta, value) ==
    << option_nibble(delta) * 16 + option_nibble(Len(value)) >>
        \o option_extension(delta)
        \o option_extension(Len(value))
        \o value

\* encode_values without `options_delta_length += delta`
RECURSIVE encode_values_no_advance(_, _, _, _)
encode_values_no_advance(number, value_list, options_delta_length, options_bytes) ==
    IF value_list = <<>>
    THEN [options_delta_length |-> options_delta_length,
          options_bytes |-> options_bytes]
    ELSE LET value == Head(value_list)
             delta == number - options_delta_length
         IN  encode_values_no_advance(
                 number, Tail(value_list), options_delta_length,
                 options_bytes \o option_record(delta, value))

\* the inner loop of to_bytes: the values of one option number
RECURSIVE encode_values(_, _, _, _)
encode_values(number, value_list, options_delta_length, options_bytes) ==
    IF value_list = <<>>
    THEN [options_delta_length |-> options_delta_length,
          options_bytes |-> options_bytes]
    ELSE LET value == Head(value_list)
             delta == number - options_delta_length
         IN  encode_values(number, Tail(value_list),
                           options_delta_length + delta,
                           options_bytes \o option_record(delta, value))

\* the outer loop of to_bytes: the option numbers in ascending order
RECURSIVE encode_options(_, _, _, _)
encode_options(options, numbers, options_delta_length, options_bytes) ==
    IF numbers = {}
    THEN options_bytes
    ELSE LET number == Min(numbers)
             r == encode_values(number, options[number],
                                options_delta_length, options_bytes)
         IN  encode_options(options, numbers \ {number},
                            r.options_delta_length, r.options_bytes)

to_bytes(p) ==
    LET options_bytes == encode_options(p.options, DOMAIN p.options, 0, <<>>)
        marker == p.header.code # MessageClassEmpty /\ p.payload # <<>>
        buf_length == 4 + Len(p.payload) + Len(p.token)
                        + (IF marker THEN 1 ELSE 0) + Len(options_bytes)
    IN  IF buf_length > MaxPacket
        THEN Err("InvalidPacketLength")
        ELSE Ok(serialize_into(p.header) \o p.token \o options_bytes
                  \o (IF marker THEN <<PayloadMarker>> \o p.payload
                                ELSE <<>>))

----------------------------------------------------------------------------
(* from_bytes *)

\* buf[i]: a byte, or -1 when i is past the end (the index panics)
at(b, i) == IF i < Len(b) THEN b[i + 1] ELSE -1

\* macro u8_to_unsigned_be: src[start] | src[start + 1] << 8 | ...
RECURSIVE u8_to_unsigned_be(_, _, _)
u8_to_unsigned_be(src, start, end) ==
    IF end < start
    THEN 0
    ELSE at(src, start) + 256 * u8_to_unsigned_be(src, start + 1, end)

\* the two extension bytes taken in the wrong order
u16_from_be_unswapped(x) == x

\* u16::from_be on a little-endian target: the two bytes swapped
u16_from_be(x) == (x % 256) * 256 + (x \div 256)

\* decode_extended with the one-byte extension's bounds check off by one
decode_extended_late_check(b, idx, nibble, reserved, overflow_checks) ==
    CASE nibble = 13 ->
            IF idx > Len(b)
            THEN [status |-> "InvalidOptionLength", val |-> 0, idx |-> idx]
            ELSE IF at(b, idx) < 0
                 THEN [status |-> "PanicIndex", val |-> 0, idx |-> idx]
                 ELSE [status |-> "Ok", val |-> at(b, idx) + 13,
                       idx |-> idx + 1]
      [] nibble = 14 ->
            IF idx + 1 >= Len(b)
            THEN [status |-> "InvalidOptionLength", val |-> 0, idx |-> idx]
            ELSE LET sum == u16_from_be(
                                u8_to_unsigned_be(b, idx, idx + 1)) + 269
                 IN  IF sum > 65535 /\ overflow_checks
                     THEN [status |-> "PanicOverflow", val |-> 0, idx |-> idx]
                     ELSE [status |-> "Ok", val |-> sum % 65536,
                           idx |-> idx + 2]
      [] nibble = 15 ->
            [status |-> reserved, val |-> 0, idx |-> idx]
      [] OTHER ->
            [status |-> "Ok", val |-> nibble, idx |-> idx]

\* One nibble of an option header byte with its extension bytes, read at
\* idx: the match on delta, and the match on length.
decode_extended(b, idx, nibble, reserved, overflow_checks) ==
    CASE nibble = 13 ->
            IF idx >= Len(b)
            THEN [status |-> "InvalidOptionLength", val |-> 0, idx |-> idx]
            ELSE IF at(b, idx) < 0
                 THEN [status |-> "PanicIndex", val |-> 0, idx |-> idx]
                 ELSE [status |-> "Ok", val |-> at(b, idx) + 13,
                       idx |-> idx + 1]
      [] nibble = 14 ->
            IF idx + 1 >= Len(b)
            THEN [status |-> "InvalidOptionLength", val |-> 0, idx |-> idx]
            ELSE IF at(b, idx) < 0 \/ at(b, idx + 1) < 0
                 THEN [status |-> "PanicIndex", val |-> 0, idx |-> idx]
                 ELSE LET sum == u16_from_be(
                                     u8_to_unsigned_be(b, idx, idx + 1)) + 269
                      IN  IF sum > 65535 /\ overflow_checks
                          THEN [status |-> "PanicOverflow", val |-> 0,
                                idx |-> idx]
                          ELSE [status |-> "Ok", val |-> sum % 65536,
                                idx |-> idx + 2]
      [] nibble = 15 ->
            [status |-> reserved, val |-> 0, idx |-> idx]
      [] OTHER ->
            [status |-> "Ok", val |-> nibble, idx |-> idx]

\* options.entry(number).or_insert_with(LinkedList::new).push_back(value)
push_back(options, number, value) ==
    IF number \in DOMAIN options
    THEN [options EXCEPT ![number] = Append(@, value)]
    ELSE insert(options, number, <<value>>)

\* the while loop of from_bytes
RECURSIVE parse_options(_, _, _, _, _)
parse_options(b, idx, options_number, options, overflow_checks) ==
    IF ~(idx < Len(b))
    THEN [status |-> "Ok", idx |-> idx, options |-> options]
    ELSE
    LET byte == at(b, idx)
    IN  IF byte = PayloadMarker \/ idx > Len(b)
        THEN [status |-> "Ok", idx |-> idx, options |-> options]
        ELSE
        LET d == decode_extended(b, idx + 1, byte \div 16,
                                 "InvalidOptionDelta", overflow_checks)
        IN  IF d.status # "Ok"
            THEN [status |-> d.status, idx |-> idx, options |-> options]
            ELSE
            LET l == decode_extended(b, d.idx, byte % 16,
                                     "InvalidOptionLength", overflow_checks)
            IN  IF l.status # "Ok"
                THEN [status |-> l.status, idx |-> idx, options |-> options]
                ELSE
                LET number == options_number + d.val
                    end == l.idx + l.val
                IN  IF end > Len(b)
                    THEN [status |-> "InvalidOptionLength", idx |-> idx,
                          options |-> options]
                    ELSE IF ~slice_ok(b, l.idx, end)
                    THEN [status |-> "PanicIndex", idx |-> idx,
                          options |-> options]
                    ELSE parse_options(
                             b, l.idx + l.val, number,
                             push_back(options, number, Slice(b, l.idx, end)),
                             overflow_checks)

\* HeaderRaw::try_from: the buffer holds the 4 header bytes
HeaderRaw_try_from(b) ==
    IF Len(b) < 4 THEN Err("InvalidHeader") ELSE Ok(SubSeq(b, 1, 4))

from_bytes(b, overflow_checks) ==
    LET header_result == HeaderRaw_try_from(b)
    IN  IF header_result.status # "Ok"
        THEN [status |-> "InvalidHeader", packet |-> Packet_new]
        ELSE
        LET header == Header_from_raw(header_result.val)
            token_length == header.token_length
            options_start == 4 + token_length
        IN  IF token_length > MaxTokenLength
            THEN [status |-> "InvalidTokenLength", packet |-> Packet_new]
            ELSE IF options_start > Len(b)
            THEN [status |-> "InvalidTokenLength", packet |-> Packet_new]
            ELSE IF ~slice_ok(b, 4, options_start)
            THEN [status |-> "PanicIndex", packet |-> Packet_new]
            ELSE
            LET token == Slice(b, 4, options_start)
                r == parse_options(b, options_start, 0, <<>>, overflow_checks)
            IN  IF r.status # "Ok"
                THEN [status |-> r.status, packet |-> Packet_new]
                ELSE IF r.idx < Len(b) /\ ~slice_ok(b, r.idx + 1, Len(b))
                THEN [status |-> "PanicIndex", packet |-> Packet_new]
                ELSE
                LET payload == IF r.idx < Len(b)
                               THEN Slice(b, r.idx + 1, Len(b))
                               ELSE <<>>
                IN  [status |-> "Ok",
                     packet |-> [header |-> header, token |-> token,
                                 options |-> r.options, payload |-> payload]]

----------------------------------------------------------------------------
(* Inputs of the calls *)

TokenInputs == {<<>>, <<81, 85>>}
PayloadInputs == {<<>>, <<72, 105>>}
CodeInputs == {0, 1}
MessageIdInputs == {0, 33950}
ContentFormatInputs == {0, 50}
ObserveInputs == {<<1>>}
OptionInputs ==
    {<<"UriPath", <<72, 105>>>>, <<"UriPath", Fill(13)>>,
     <<"UriPath", <<>>>>, <<"ContentFormat", <<50>>>>,
     <<"ContentFormat", <<0, 41>>>>, <<"NoResponse", Fill(270)>>}
ListInputs ==
    {<<"UriPath", <<>>>>, <<"UriPath", << <<84>>, <<>> >> >>,
     <<"ContentFormat", << <<0, 50>> >> >>}
ClearInputs == {"UriPath", "ContentFormat", "Observe"}

LongTokenInputs == {Fill(8), Fill(9), Fill(256)}
LargePayloadInputs ==
    {Fill(1000), Fill(1266), Fill(1267), Fill(1268), Fill(1276), Fill(1277)}
LargeOptionInputs == {<<"UriPath", Fill(269)>>, <<"UriQuery", Fill(268)>>}

RECURSIVE Seqs(_, _)
Seqs(S, n) ==
    IF n = 0
    THEN {<<>>}
    ELSE LET shorter == Seqs(S, n - 1)
         IN  shorter \cup {Append(q, x) : q \in shorter, x \in S}

RawBytes == {0, 1, 13, 14, 31, 208, 224, 239, 241, 255}
RawHeaders == {<<64, 1, 0, 0>>, <<65, 1, 0, 0>>, <<73, 1, 0, 0>>}
RawBuffers ==
    {h \o t : h \in RawHeaders, t \in Seqs(RawBytes, MaxRawLen)}
        \cup {<<>>, <<64>>, <<64, 1, 0>>}

\* the number of values an option table holds
RECURSIVE CountValues(_, _)
CountValues(options, numbers) ==
    IF numbers = {}
    THEN 0
    ELSE LET number == Min(numbers)
         IN  Len(options[number]) + CountValues(options, numbers \ {number})

Room(p) == CountValues(p.options, DOMAIN p.options) <= MaxValues

PrefixLengths(b) == {n \in 0..Len(b) : n <= MaxPrefix \/ n >= Len(b) - 1}

call(op, tp, val, num) == [op |-> op, tp |-> tp, val |-> val, num |-> num]

NoResult == [status |-> "None", val |-> <<>>]
NoPacket == [status |-> "None", packet |-> Packet_new]
NoVli == [stage |-> "none", v |-> 0, role |-> "none", nibble |-> 0,
          ext |-> <<>>, status |-> "None", decoded |-> 0]

----------------------------------------------------------------------------
(* The state machine: a Packet is built call by call, encoded once with    *)
(* to_bytes, and the buffer, or a truncated prefix of it, is decoded.      *)

Init ==
    /\ packet = Packet_new
    /\ populated = {}
    /\ last = call("new", "", <<>>, 0)
    /\ pc = "build"
    /\ enc = NoResult
    /\ buf = <<>>
    /\ dec = NoPacket
    /\ vli = NoVli

SetToken ==
    /\ pc = "build"
    /\ \E token \in TokenInputs :
          /\ packet' = set_token(packet, token)
          /\ last' = call("set_token", "", token, 0)
    /\ UNCHANGED <<populated, pc, enc, buf, dec, vli>>

SetPayload ==
    /\ pc = "build"
    /\ \E payload \in PayloadInputs :
          /\ packet' = set_payload(packet, payload)
          /\ last' = call("set_payload", "", payload, 0)
    /\ UNCHANGED <<populated, pc, enc, buf, dec, vli>>

\* packet.header.code = ...
SetCode ==
    /\ pc = "build"
    /\ \E code \in CodeInputs :
          /\ packet' = [packet EXCEPT !.header.code = code]
          /\ last' = call("set_code", "", <<>>, code)
    /\ UNCHANGED <<populated, pc, enc, buf, dec, vli>>

\* packet.header.set_message_id(...)
SetMessageId ==
    /\ pc = "build"
    /\ \E id \in MessageIdInputs :
          /\ packet' = [packet EXCEPT !.header.message_id = id]
          /\ last' = call("set_message_id", "", <<>>, id)
    /\ UNCHANGED <<populated, pc, enc, buf, dec, vli>>

AddOption ==
    /\ pc = "build"
    /\ \E o \in OptionInputs :
          /\ Room(add_option(packet, o[1], o[2]))
          /\ packet' = add_option(packet, o[1], o[2])
          /\ populated' = populated \cup {get_option_number(o[1])}
          /\ last' = call("add_option", o[1], o[2], 0)
    /\ UNCHANGED <<pc, enc, buf, dec, vli>>

SetOption ==
    /\ pc = "build"
    /\ \E o \in ListInputs :
          /\ Room(set_option(packet, o[1], o[2]))
          /\ packet' = set_option(packet, o[1], o[2])
          /\ populated' = populated \cup {get_option_number(o[1])}
          /\ last' = call("set_option", o[1], o[2], 0)
    /\ UNCHANGED <<pc, enc, buf, dec, vli>>

ClearOption ==
    /\ pc = "build"
    /\ \E tp \in ClearInputs :
          /\ packet' = clear_option(packet, tp)
          /\ last' = call("clear_option", tp, <<>>, 0)
    /\ UNCHANGED <<populated, pc, enc, buf, dec, vli>>

SetContentFormat ==
    /\ pc = "build"
    /\ \E cf \in ContentFormatInputs :
          /\ Room(set_content_format(packet, cf))
          /\ packet' = set_content_format(packet, cf)
          /\ populated' = populated \cup {get_option_number("ContentFormat")}
          /\ last' = call("set_content_format", "ContentFormat", <<>>, cf)
    /\ UNCHANGED <<pc, enc, buf, dec, vli>>

SetObserve ==
    /\ pc = "build"
    /\ \E value \in ObserveInputs :
          /\ Room(set_observe(packet, value))
          /\ packet' = set_observe(packet, value)
          /\ populated' = populated \cup {get_option_number("Observe")}
          /\ last' = call("set_observe", "Observe", value, 0)
    /\ UNCHANGED <<pc, enc, buf, dec, vli>>

ToBytes ==
    /\ pc = "build"
    /\ enc' = to_bytes(packet)
    /\ pc' = "encoded"
    /\ last' = call("to_bytes", "", <<>>, 0)
    /\ UNCHANGED <<packet, populated, buf, dec, vli>>

\* from_bytes on the encoded buffer or on a truncated prefix of it
FromBytes ==
    /\ pc = "encoded"
    /\ enc.status = "Ok"
    /\ \E n \in PrefixLengths(enc.val), overflow_checks \in BOOLEAN :
          /\ buf' = SubSeq(enc.val, 1, n)
          /\ dec' = from_bytes(buf', overflow_checks)
    /\ pc' = "decoded"
    /\ last' = call("from_bytes", "", <<>>, 0)
    /\ UNCHANGED <<packet, populated, enc, vli>>

Next ==
    \/ SetToken
    \/ SetPayload
    \/ SetCode
    \/ SetMessageId
    \/ AddOption
    \/ SetOption
    \/ ClearOption
    \/ SetContentFormat
    \/ SetObserve
    \/ ToBytes
    \/ FromBytes

Spec == Init /\ [][Next]_vars

----------------------------------------------------------------------------
(* Packets near the 1280-byte ceiling: long tokens, large payloads and     *)
(* large option values.                                                    *)

RoomLarge(p) == CountValues(p.options, DOMAIN p.options) <= MaxLarge

SetLongToken ==
    /\ pc = "build"
    /\ \E token \in LongTokenInputs :
          /\ packet' = set_token(packet, token)
          /\ last' = call("set_token", "", token, 0)
    /\ UNCHANGED <<populated, pc, enc, buf, dec, vli>>

SetLargePayload ==
    /\ pc = "build"
    /\ \E payload \in LargePayloadInputs :
          /\ packet' = set_payload(packet, payload)
          /\ last' = call("set_payload", "", payload, 0)
    /\ UNCHANGED <<populated, pc, enc, buf, dec, vli>>

AddLargeOption ==
    /\ pc = "build"
    /\ \E o \in LargeOptionInputs :
          /\ RoomLarge(add_option(packet, o[1], o[2]))
          /\ packet' = add_option(packet, o[1], o[2])
          /\ populated' = populated \cup {get_option_number(o[1])}
          /\ last' = call("add_option", o[1], o[2], 0)
    /\ UNCHANGED <<pc, enc, buf, dec, vli>>

NextSize ==
    \/ SetLongToken
    \/ SetLargePayload
    \/ AddLargeOption
    \/ SetCode
    \/ ToBytes
    \/ FromBytes

SpecSize == Init /\ [][NextSize]_vars

----------------------------------------------------------------------------
(* from_bytes on arbitrary buffers *)

InitRaw ==
    /\ packet = Packet_new
    /\ populated = {}
    /\ last = call("new", "", <<>>, 0)
    /\ pc = "raw"
    /\ enc = NoResult
    /\ buf \in RawBuffers
    /\ dec = NoPacket
    /\ vli = NoVli

FromBytesRaw ==
    /\ pc = "raw"
    /\ \E overflow_checks \in BOOLEAN :
          dec' = from_bytes(buf, overflow_checks)
    /\ pc' = "decoded"
    /\ last' = call("from_bytes", "", <<>>, 0)
    /\ UNCHANGED <<packet, populated, enc, buf, vli>>

NextRaw == FromBytesRaw

SpecRaw == InitRaw /\ [][NextRaw]_vars

----------------------------------------------------------------------------
(* The variable-length integer scheme on its own: a delta or a value       *)
(* length v is written as to_bytes writes it and read back as from_bytes   *)
(* reads it.                                                               *)

VliInputs ==
    (0..MaxVliLow) \cup ((65535 - MaxVliLow)..(65535 + 269))

InitVli ==
    /\ packet = Packet_new
    /\ populated = {}
    /\ last = call("new", "", <<>>, 0)
    /\ pc = "vli"
    /\ enc = NoResult
    /\ buf = <<>>
    /\ dec = NoPacket
    /\ vli \in {[NoVli EXCEPT !.stage = "input", !.v = v, !.role = role] :
                  v \in VliInputs, role \in {"delta", "length"}}

\* to_bytes, lines 311-341: the nibble and the extension bytes of v
VliEncode ==
    /\ vli.stage = "input"
    /\ vli' = [vli EXCEPT !.stage = "encoded",
                          !.nibble = option_nibble(vli.v),
                          !.ext = option_extension(vli.v)]
    /\ UNCHANGED <<packet, populated, last, pc, enc, buf, dec>>

\* from_bytes, lines 210-266: the nibble and its extension bytes read back
VliDecode ==
    /\ vli.stage = "encoded"
    /\ \E overflow_checks \in BOOLEAN :
          LET r == decode_extended(
                       vli.ext, 0, vli.nibble,
                       IF vli.role = "delta" THEN "InvalidOptionDelta"
                                             ELSE "InvalidOptionLength",
                       overflow_checks)
          IN  vli' = [vli EXCEPT !.stage = "decoded",
                                !.status = r.status,
                                !.decoded = r.val]
    /\ UNCHANGED <<packet, populated, last, pc, enc, buf, dec>>

NextVli == VliEncode \/ VliDecode

SpecVli == InitVli /\ [][NextVli]_vars

----------------------------------------------------------------------------
(* Reference definitions for the properties, written from the wire format  *)
(* and not from to_bytes.                                                  *)

\* the option values of a table in transmission order, each with its number
RECURSIVE Records(_, _)
Records(options, numbers) ==
    IF numbers = {}
    THEN <<>>
    ELSE LET number == Min(numbers)
         IN  [i \in 1..Len(options[number]) |->
                 [number |-> number, value |-> options[number][i]]]
             \o Records(options, numbers \ {number})

ExtensionLength(v) == IF v <= 12 THEN 0 ELSE IF v <= 268 THEN 1 ELSE 2

\* the wire length of the first j option records
RECURSIVE RecordsLength(_, _)
RecordsLength(records, j) ==
    IF j = 0
    THEN 0
    ELSE LET previous == IF j = 1 THEN 0 ELSE records[j - 1].number
             r == records[j]
         IN  RecordsLength(records, j - 1) + 1
               + ExtensionLength(r.number - previous)
               + ExtensionLength(Len(r.value)) + Len(r.value)

\* the offsets of a packet's encoding at which an option record ends (the
\* end of the token counts as the end of zero records)
Boundaries(p) ==
    LET records == Records(p.options, DOMAIN p.options)
    IN  {4 + Len(p.token) + RecordsLength(records, j) : j \in 0..Len(records)}

OptionsEnd(p) ==
    LET records == Records(p.options, DOMAIN p.options)
    IN  4 + Len(p.token) + RecordsLength(records, Len(records))

PayloadEmitted(p) == p.header.code # 0 /\ p.payload # <<>>

EmittedLength(p) ==
    OptionsEnd(p) + (IF PayloadEmitted(p) THEN 1 + Len(p.payload) ELSE 0)

\* the values of an option table: the keys that hold at least one value
Contents(options) ==
    [k \in {n \in DOMAIN options : options[n] # <<>>} |-> options[k]]

Panics == {"PanicIndex", "PanicOverflow"}

----------------------------------------------------------------------------
(* C1: round trip *)

FullDecode == pc = "decoded" /\ buf = enc.val

Equivalent(m, d) ==
    /\ d.header = m.header
    /\ d.token = m.token
    /\ Contents(d.options) = Contents(m.options)
    /\ d.payload = m.payload

\* C1 as stated: every packet built through the programmatic surface with a
\* token of at most 8 bytes and an encoding of at most 1280 bytes decodes,
\* from its own encoding, to a packet with the same header, token, option
\* values and payload.
C1_RoundTripAsClaimed ==
    (FullDecode /\ Len(packet.token) <= 8)
        => (dec.status = "Ok" /\ Equivalent(packet, dec.packet))

\* C1 amended: the same, for the packets whose payload is empty whenever
\* the message class is Empty (to_bytes does not emit the payload of an
\* Empty message); option tables are compared by the values they hold.
C1_RoundTrip ==
    (/\ FullDecode
     /\ Len(packet.token) <= 8
     /\ (packet.header.code = MessageClassEmpty => packet.payload = <<>>))
        => (dec.status = "Ok" /\ Equivalent(packet, dec.packet))

C1_Witness ==
    /\ FullDecode
    /\ dec.status = "Ok"
    /\ packet.header.code # MessageClassEmpty
    /\ packet.header.message_id # 0
    /\ packet.payload # <<>>
    /\ packet.token # <<>>
    /\ DOMAIN packet.options = {11, 258}
    /\ Len(packet.options[11][1]) = 13
    /\ Len(packet.options[258][1]) = 270
    /\ Equivalent(packet, dec.packet)

----------------------------------------------------------------------------
(* C2: from_bytes stays inside the buffer *)

\* C2: on every input buffer from_bytes ends with a Message or an error
\* value; it never indexes or slices the buffer past its end and never
\* terminates abruptly.
C2_NoPanic == pc = "decoded" => dec.status \notin Panics

----------------------------------------------------------------------------
(* C3: the option table operations *)

OptionCalls == {"add_option", "set_option", "clear_option"}

\* an option table without the entry of one option number
Others(options, num) == [k \in DOMAIN options \ {num} |-> options[k]]

C3_Step ==
    LET op == last'.op
        tp == last'.tp
        before == get_option(packet, tp)
        after == get_option(packet', tp)
    IN  (pc' = "build" /\ op \in OptionCalls) =>
        /\ op = "add_option" =>
               after = Some(Append(IF before.some THEN before.val ELSE <<>>,
                                   last'.val))
        /\ op = "set_option" => after = Some(last'.val)
        /\ op = "clear_option" =>
               after = (IF before.some THEN Some(<<>>) ELSE None)
        /\ Others(packet'.options, get_option_number(tp))
               = Others(packet.options, get_option_number(tp))
        /\ packet'.token = packet.token
        /\ packet'.payload = packet.payload
        /\ after.some <=> get_option_number(tp) \in populated'
        /\ DOMAIN packet'.options = populated'

\* C3: add_option appends the value after the key's existing values,
\* set_option replaces the key's whole sequence, clear_option leaves a
\* populated key present and empty and a never-populated key absent,
\* get_option reports absence exactly for the keys never added or set, and
\* none of the three changes another key, the token or the payload.
C3_OptionTable == [][C3_Step]_vars

C3_Witness ==
    /\ last.op = "clear_option"
    /\ get_option(packet, last.tp) = Some(<<>>)
    /\ get_option(packet, "Observe") = None
    /\ \E t \in CoapOption :
          get_option(packet, t).some /\ Len(get_option(packet, t).val) = 2

----------------------------------------------------------------------------
(* C4: content format set/get *)

\* C4: after set_content_format(cf), whatever was called before,
\* get_content_format returns cf.
C4_SetGet ==
    last.op = "set_content_format"
        => get_content_format(packet) = [kind |-> "Some", val |-> last.num]

----------------------------------------------------------------------------
(* C5: the token length of the header *)

DeclaredTokenLength(b) == b[1] % 16

\* C5: after any set_token calls, and in every decoded packet, the header's
\* token length is the number of token bytes; from_bytes answers
\* InvalidTokenLength when the declared token length is above 8 or above
\* the bytes that follow the 4-byte header.
C5_TokenLength ==
    /\ packet.header.token_length = Len(packet.token)
    /\ dec.status = "Ok"
          => dec.packet.header.token_length = Len(dec.packet.token)
    /\ (/\ pc = "decoded"
         /\ Len(buf) >= 4
         /\ \/ DeclaredTokenLength(buf) > 8
            \/ DeclaredTokenLength(buf) > Len(buf) - 4)
          => dec.status = "InvalidTokenLength"

----------------------------------------------------------------------------
(* C6: the size ceiling of to_bytes *)

\* C6: to_bytes answers InvalidPacketLength exactly when the bytes it would
\* emit (header, token, option records, and the marker and payload when
\* they are emitted) are more than 1280; then it returns no buffer, and a
\* returned buffer is never longer than 1280 bytes.
C6_SizeCeiling ==
    pc \in {"encoded", "decoded"} =>
        /\ enc.status = "InvalidPacketLength"
              <=> EmittedLength(packet) > MaxPacket
        /\ enc.status = "Ok" => Len(enc.val) <= MaxPacket
        /\ enc.status # "Ok" => enc.val = <<>>

----------------------------------------------------------------------------
(* C7: the reserved nibble 15 *)

\* the first option header byte of a buffer, when from_bytes reads one: the
\* byte after the token, unless it is the payload marker
ReadsOptionHeader(b) ==
    /\ Len(b) >= 4
    /\ DeclaredTokenLength(b) <= 8
    /\ 4 + DeclaredTokenLength(b) < Len(b)
    /\ b[4 + DeclaredTokenLength(b) + 1] # PayloadMarker

FirstOptionHeader(b) == b[4 + DeclaredTokenLength(b) + 1]

\* C7: an option header byte whose delta nibble is 15 makes from_bytes fail
\* with InvalidOptionDelta, one whose length nibble is 15 makes it fail
\* with InvalidOptionLength; the byte is never accepted and from_bytes
\* never panics on it.
C7_Sentinel ==
    (pc = "decoded" /\ ReadsOptionHeader(buf)) =>
        /\ FirstOptionHeader(buf) \div 16 = 15
              => dec.status = "InvalidOptionDelta"
        /\ (FirstOptionHeader(buf) % 16 = 15
             /\ FirstOptionHeader(buf) \div 16 # 15)
              => dec.status = "InvalidOptionLength"

----------------------------------------------------------------------------
(* C8: truncated buffers *)

SpecificErrors ==
    {"InvalidHeader", "InvalidTokenLength", "InvalidOptionDelta",
     "InvalidOptionLength"}

ValidMessage == Len(packet.token) <= 8 /\ enc.status = "Ok"

\* C8 as stated: from_bytes on a truncated prefix of an encoded valid
\* packet returns a specific error or succeeds, and succeeds only when the
\* prefix holds no payload and ends at an option record boundary.
C8_TruncationAsClaimed ==
    (pc = "decoded" /\ ValidMessage /\ Len(buf) < Len(enc.val)) =>
        /\ dec.status \in SpecificErrors \cup {"Ok"}
        /\ dec.status = "Ok" =>
              /\ dec.packet.payload = <<>>
              /\ \/ Len(buf) \in Boundaries(packet)
                 \/ Len(buf) = OptionsEnd(packet) + 1

\* C8 amended: from_bytes on a prefix of an encoded valid packet returns a
\* specific error or succeeds, and succeeds only when the prefix ends at an
\* option record boundary or reaches past the payload marker (the decoded
\* payload is then the part of the payload the prefix holds).
C8_Truncation ==
    (pc = "decoded" /\ ValidMessage) =>
        /\ dec.status \in SpecificErrors \cup {"Ok"}
        /\ dec.status = "Ok" =>
              \/ /\ Len(buf) \in Boundaries(packet)
                 /\ dec.packet.payload = <<>>
              \/ /\ Len(buf) > OptionsEnd(packet)
                 /\ PayloadEmitted(packet)
                 /\ dec.packet.payload
                      = SubSeq(packet.payload, 1,
                               Len(buf) - OptionsEnd(packet) - 1)

C8_Witness ==
    /\ pc = "decoded"
    /\ ValidMessage
    /\ Len(buf) < Len(enc.val)
    /\ dec.status = "Ok"
    /\ Len(buf) \in Boundaries(packet)
    /\ Len(buf) > 4 + Len(packet.token)
    /\ Len(buf) < OptionsEnd(packet)
    /\ packet.token # <<>>
    /\ PayloadEmitted(packet)

----------------------------------------------------------------------------
(* C9: get_content_format is total *)

Total(p) ==
    /\ get_content_format(p).kind \in {"Some", "None"}
    /\ (~get_option(p, "ContentFormat").some
         \/ get_option(p, "ContentFormat").val = <<>>)
          => get_content_format(p).kind = "None"

\* C9: on every packet built through the programmatic surface or returned
\* by from_bytes, get_content_format returns a content format or absence
\* and never panics; it returns absence when option 12 is absent or empty.
C9_Total ==
    /\ Total(packet)
    /\ dec.status = "Ok" => Total(dec.packet)

----------------------------------------------------------------------------
(* C10: the variable-length integer scheme *)

\* C10: a delta or length v in 0..65804 is written as nibble v (v <= 12),
\* as nibble 13 and the byte v - 13 (13 <= v <= 268), or as nibble 14 and
\* the two big-endian bytes of v - 269 (269 <= v), and from_bytes reads
\* exactly v back from the nibble and its extension bytes.
C10_Scheme ==
    /\ vli.stage \in {"encoded", "decoded"} =>
          /\ vli.v <= 12 => vli.nibble = vli.v /\ vli.ext = <<>>
          /\ (13 <= vli.v /\ vli.v <= 268)
                => vli.nibble = 13 /\ vli.ext = <<vli.v - 13>>
          /\ 269 <= vli.v
                => /\ vli.nibble = 14
                   /\ vli.ext = <<(vli.v - 269) \div 256, (vli.v - 269) % 256>>
    /\ vli.stage = "decoded" => vli.status = "Ok" /\ vli.decoded = vli.v

----------------------------------------------------------------------------
(* C11: the order and the deltas of the emitted option records *)

\* a delta or a length on the wire: the nibble and its extension bytes,
\* which start at offset pos
WireValue(b, pos, nibble) ==
    IF nibble = 13
    THEN b[pos + 1] + 13
    ELSE IF nibble = 14
         THEN b[pos + 1] * 256 + b[pos + 2] + 269
         ELSE nibble

WireExtension(nibble) == IF nibble = 13 THEN 1 ELSE IF nibble = 14 THEN 2 ELSE 0

\* the option records found on the wire from offset pos up to the payload
\* marker or the end of the buffer: each with its delta and its value
RECURSIVE WireRecords(_, _)
WireRecords(b, pos) ==
    IF pos >= Len(b) \/ b[pos + 1] = PayloadMarker
    THEN <<>>
    ELSE LET delta_nibble == b[pos + 1] \div 16
             length_nibble == b[pos + 1] % 16
             delta == WireValue(b, pos + 1, delta_nibble)
             length == WireValue(b, pos + 1 + WireExtension(delta_nibble),
                                 length_nibble)
             start == pos + 1 + WireExtension(delta_nibble)
                        + WireExtension(length_nibble)
         IN  << [delta |-> delta, value |-> SubSeq(b, start + 1, start + length)] >>
                 \o WireRecords(b, start + length)

\* the records an option table is to emit: its values by ascending option
\* number and stored order, each with the distance of its number from the
\* number of the record before it (from 0 for the first)
ExpectedRecords(options) ==
    LET records == Records(options, DOMAIN options)
    IN  [j \in 1..Len(records) |->
            [delta |-> records[j].number
                         - (IF j = 1 THEN 0 ELSE records[j - 1].number),
             value |-> records[j].value]]

Encoded == pc \in {"encoded", "decoded"} /\ enc.status = "Ok"

\* C11: in whatever order the keys were added, to_bytes emits the option
\* records by ascending key with the values of a key in stored order; the
\* delta of each record is its key minus the key of the record before it
\* (0 before the first), is never negative and is 0 for every value of a
\* key after the first; a key with an empty sequence emits no record and
\* leaves the running total unchanged.
C11_Ordering ==
    Encoded =>
        LET wire == WireRecords(enc.val, 4 + Len(packet.token))
            records == Records(packet.options, DOMAIN packet.options)
        IN  /\ wire = ExpectedRecords(packet.options)
            /\ \A j \in 1..Len(wire) : wire[j].delta >= 0
            /\ \A j \in 2..Len(wire) :
                  records[j].number = records[j - 1].number
                      => wire[j].delta = 0

C11_Witness ==
    /\ Encoded
    /\ last.op = "to_bytes"
    /\ DOMAIN packet.options = {6, 11}
    /\ packet.options[6] = <<>>
    /\ Len(packet.options[11]) = 2
    /\ populated = {6, 11}
    /\ LET wire == WireRecords(enc.val, 4 + Len(packet.token))
       IN  Len(wire) = 2 /\ wire[1].delta = 11 /\ wire[2].delta = 0

\* two option numbers: the second record carries their distance
C11_TwoKeys ==
    /\ Encoded
    /\ DOMAIN packet.options = {12, 258}
    /\ LET wire == WireRecords(enc.val, 4 + Len(packet.token))
       IN  Len(wire) = 2 /\ wire[1].delta = 12 /\ wire[2].delta = 246

====
